---- MODULE Spec2Model ----
(***************************************************************************)
(* A model of venvbs.py: one bootstrap run of the script, from the call    *)
(* of main() at the script entry point to the exit of the process.         *)
(*                                                                         *)
(* The environment (the package index, the download endpoint, the archive  *)
(* that is unpacked, the order of a directory listing, the exit status of  *)
(* the child process) is drawn from small sets inside the actions.         *)
(***************************************************************************)
EXTENDS Integers, Sequences, FiniteSets, TLC

VARIABLES
    pc,         \* position of the single thread of control
    argv,       \* the passthrough arguments main() was called with
    tdExists,   \* the scratch directory exists on the filesystem
    tdCreated,  \* the scratch directory has been created in this run
    tree,       \* contents of the scratch directory: child name -> kind
    reply,      \* the package index's answer read by task_get_url
    listing,    \* what glob.glob returned to task_find_virtualenvpy
    url,        \* local `url` of run()
    virtualenvpy, \* local `virtualenvpy` of run()
    started,    \* the stages started so far, in order
    exc,        \* the exception in flight (NoExc when there is none)
    raised,     \* the exception as the failing stage raised it
    child,      \* the child process: "none", "running", "exited"
    command,    \* the command line handed to subprocess.call
    childCode,  \* the exit status subprocess.call returned: {} or {status}
    logged,     \* what main() handed to logging.exception
    ret,        \* the value main() returned
    stderr,     \* the lines the process wrote on its error stream
    exitCode    \* the exit status of the process: {} while it runs, or {status}

vars == <<pc, argv, tdExists, tdCreated, tree, reply, listing, url,
          virtualenvpy, started, exc, raised, child, command, childCode,
          logged, ret, stderr, exitCode>>

----------------------------------------------------------------------------
(* Bounds of the model *)

MaxArtifacts == 2
MaxArgs == 1

Urls == {"u1", "u2"}
PackageTypes == {"sdist", "bdist_wheel"}
ArgValues == {"a", "b"}
ExitStatuses == {-1, 0, 1}
Reasons == {"timed out"}
Details == {"bad header"}

SeqsUpTo(S, n) == UNION {[1..k -> S] : k \in 0..n}

----------------------------------------------------------------------------
(* Values *)

NoUrl == "None"
NoPath == <<>>
NoListing == <<>>

NoExc == [kind |-> "none", msg |-> <<>>, args |-> <<>>]

\* BootstrapError.__init__
BootstrapError(msg, args) == [kind |-> "BootstrapError", msg |-> msg, args |-> args]

\* any exception that is not a BootstrapError
OtherError(kind) == [kind |-> kind, msg |-> <<>>, args |-> <<>>]

\* msg % args: every "%s" of the template takes the next argument
RECURSIVE Format(_, _)
Format(msg, args) ==
    IF msg = <<>> THEN <<>>
    ELSE IF Head(msg) = "%s"
         THEN <<Head(args)>> \o Format(Tail(msg), Tail(args))
         ELSE <<Head(msg)>> \o Format(Tail(msg), args)

None == [none |-> TRUE, text |-> <<>>]
Str(text) == [none |-> FALSE, text |-> text]

----------------------------------------------------------------------------
(* task_get_url *)

Package == "virtualenv"

Artifacts == [packagetype : PackageTypes, url : Urls]

\* What urlopen(...).read() gives task_get_url: a URLError, a body that is
\* not JSON, or a JSON body whose 'urls' lists artifacts.
IndexReplies ==
    {[kind |-> "unreachable", urls |-> <<>>], [kind |-> "malformed", urls |-> <<>>]}
    \cup {[kind |-> "ok", urls |-> u] : u \in SeqsUpTo(Artifacts, MaxArtifacts)}

IsSdist(x) == x.packagetype = "sdist"

\* [x for x in data['urls'] if x['packagetype'] == 'sdist']
SdistsOf(r) == SelectSeq(r.urls, IsSdist)

task_get_url_last(package, r) ==
    IF r.kind = "unreachable"
    THEN [url |-> NoUrl, exc |-> BootstrapError(<<"Could not get url">>, <<>>)]
    ELSE IF r.kind = "malformed"
    THEN [url |-> NoUrl, exc |-> OtherError("ValueError")]
    ELSE IF Len(SdistsOf(r)) = 0
    THEN [url |-> NoUrl,
          exc |-> BootstrapError(<<"No URL found for: ", "%s">>, <<package>>)]
    ELSE [url |-> SdistsOf(r)[Len(SdistsOf(r))].url, exc |-> NoExc]

task_get_url(package, r) ==
    IF r.kind = "unreachable"
    THEN [url |-> NoUrl, exc |-> BootstrapError(<<"Could not get url">>, <<>>)]
    ELSE IF r.kind = "malformed"
    THEN [url |-> NoUrl, exc |-> OtherError("ValueError")]
    ELSE IF Len(SdistsOf(r)) = 0
    THEN [url |-> NoUrl,
          exc |-> BootstrapError(<<"No URL found for: ", "%s">>, <<package>>)]
    ELSE [url |-> SdistsOf(r)[1].url, exc |-> NoExc]

----------------------------------------------------------------------------
(* The scratch directory's contents and task_fetch_virtualenv *)

Prefix == <<"v", "i", "r", "t", "u", "a", "l", "e", "n", "v", "-">>
EntryPoint == "virtualenv.py"

\* The names a child of the scratch directory can have: two that match
\* 'virtualenv-*' and one that does not.
ChildNames ==
    {Prefix \o <<"1">>, Prefix \o <<"2">>,
     <<"v", "i", "r", "t", "u", "a", "l", "e", "n", "v">>}

\* A child is absent, a regular file ("file"), a directory without
\* virtualenv.py ("dir"), a directory holding a regular file virtualenv.py
\* ("dir_file"), or a directory holding a directory named virtualenv.py
\* ("dir_dir").
Kinds == {"absent", "file", "dir", "dir_file", "dir_dir"}

Trees == [ChildNames -> Kinds]
EmptyTree == [c \in ChildNames |-> "absent"]

\* The download: the archive's bytes ("ok"), a URLError with its reason
\* ("urlerror"), or a read that breaks off with an exception that is not
\* a URLError, such as http.client.IncompleteRead ("broken").
Downloads ==
    {[kind |-> "ok", reason |-> ""], [kind |-> "broken", reason |-> ""]}
    \cup {[kind |-> "urlerror", reason |-> r] : r \in Reasons}

\* The extraction: the tree extractall leaves behind, and whether it
\* raised (a TarError, ValueError or OSError, with its first argument);
\* one that raised may have written a part of the archive.
Extractions ==
    {[ok |-> TRUE, detail |-> "", tree |-> t] : t \in Trees}
    \cup {[ok |-> FALSE, detail |-> d, tree |-> t] : d \in Details, t \in Trees}

task_fetch_virtualenv(dir, u, dl, ex) ==
    IF dl.kind = "urlerror"
    THEN [tree |-> EmptyTree,
          exc |-> BootstrapError(<<"Could not download virtualenv: ", "%s">>, <<dl.reason>>)]
    ELSE IF dl.kind = "broken"
    THEN [tree |-> EmptyTree, exc |-> OtherError("HTTPException")]
    ELSE IF ~ex.ok
    THEN [tree |-> ex.tree,
          exc |-> BootstrapError(<<"Could not untar virtualenv: ", "%s">>, <<ex.detail>>)]
    ELSE [tree |-> ex.tree, exc |-> NoExc]

----------------------------------------------------------------------------
(* task_find_virtualenvpy *)

\* the path mkdtemp returns
Td == <<"td">>

\* os.path.join(dir, name)
Join(dir, name) == Append(dir, name)

\* fnmatch of a name against 'virtualenv-*'
MatchesPattern(name) ==
    /\ Len(name) >= Len(Prefix)
    /\ SubSeq(name, 1, Len(Prefix)) = Prefix

\* The paths glob.glob(os.path.join(dir, 'virtualenv-*')) finds. The
\* directory part of the pattern is taken literally: the path of the
\* scratch directory is one without glob metacharacters.
GlobSet(dir, fs) ==
    {Join(dir, c) : c \in {n \in ChildNames : fs[n] # "absent" /\ MatchesPattern(n)}}

\* glob.glob returns them in the order of the directory listing
Orderings(S) ==
    {s \in [1..Cardinality(S) -> S] : \A i, j \in 1..Cardinality(S) : s[i] = s[j] => i = j}

\* os.path.exists of <<dir, child, entry>>: true of a directory too
exists(fs, path) ==
    /\ Len(path) = 3
    /\ path[2] \in ChildNames
    /\ path[3] = EntryPoint
    /\ fs[path[2]] \in {"dir_file", "dir_dir"}

\* os.path.isfile of <<dir, child, entry>>
isfile(fs, path) ==
    /\ Len(path) = 3
    /\ path[2] \in ChildNames
    /\ path[3] = EntryPoint
    /\ fs[path[2]] = "dir_file"

NotFound == BootstrapError(<<"Could not find virtualenv.py">>, <<>>)

\* the for loop over matches
RECURSIVE find_loop(_, _)
find_loop(fs, matches) ==
    IF matches = <<>> THEN [path |-> NoPath, exc |-> NotFound]
    ELSE IF isfile(fs, Join(Head(matches), EntryPoint))
         THEN [path |-> Join(Head(matches), EntryPoint), exc |-> NoExc]
         ELSE find_loop(fs, Tail(matches))

task_find_virtualenvpy(fs, matches) == find_loop(fs, matches)

----------------------------------------------------------------------------
(* task_create_venv *)

Python == "python"

\* venv_args[-1] and [python, virtualenvpy] + list(venv_args): indexing an
\* empty list raises IndexError before the command is built.
create_venv_args(python, script, venv_args) ==
    IF Len(venv_args) = 0
    THEN [args |-> <<>>, exc |-> OtherError("IndexError")]
    ELSE [args |-> <<python, script>> \o venv_args, exc |-> NoExc]

create_venv_fails_positive(code) == code > 0

\* if code != 0
create_venv_fails(code) == code # 0

create_venv_result(code) ==
    IF create_venv_fails(code)
    THEN BootstrapError(<<"Could not create virtualenv.">>, <<>>)
    ELSE NoExc

----------------------------------------------------------------------------
(* TemporaryDirectory, run, main and the script entry point *)

\* __enter__: mkdtemp creates the directory
TemporaryDirectory_enter == [exists |-> TRUE, tree |-> EmptyTree]

TemporaryDirectory_exit_on_success(e) ==
    [exists |-> e # NoExc, exc |-> e]

\* __exit__: rmtree removes the directory; the false result lets the
\* exception of the with block go on.
TemporaryDirectory_exit(e) == [exists |-> FALSE, exc |-> e]

StageOrder == <<"resolve", "fetch", "locate", "invoke">>

NextStatement(stage) ==
    CASE stage = "resolve" -> "fetch"
      [] stage = "fetch" -> "locate"
      [] stage = "locate" -> "invoke"
      [] stage = "invoke" -> "exit"

run_next_continue(stage, e) == NextStatement(stage)

\* The body of the with block of run: the statement after a stage that
\* returned is the next stage; a stage that raised leaves the block.
run_next(stage, e) == IF e # NoExc THEN "exit" ELSE NextStatement(stage)

call_returns_at_once == "exit"

\* subprocess.call returns only when the child has terminated
call_returns == "wait"

main_except_template(e) == [logged |-> <<e.msg, e.args>>, ret |-> Str(e.msg)]

\* except BootstrapError as e: logging.exception(e.msg, *e.args);
\* return e.msg % e.args
main_except(e) == [logged |-> <<e.msg, e.args>>, ret |-> Str(Format(e.msg, e.args))]

\* sys.exit(value): None is status 0 and prints nothing; a string is
\* printed on the error stream and the status is 1.
sys_exit(value) ==
    IF value.none
    THEN [code |-> 0, printed |-> <<>>]
    ELSE [code |-> 1, printed |-> <<[src |-> "sys.exit", text |-> value.text]>>]

----------------------------------------------------------------------------
(* The state machine *)

Init ==
    /\ pc = "main"
    /\ argv \in SeqsUpTo(ArgValues, MaxArgs)
    /\ tdExists = FALSE
    /\ tdCreated = FALSE
    /\ tree = EmptyTree
    /\ reply = [kind |-> "none", urls |-> <<>>]
    /\ listing = NoListing
    /\ url = NoUrl
    /\ virtualenvpy = NoPath
    /\ started = <<>>
    /\ exc = NoExc
    /\ raised = NoExc
    /\ child = "none"
    /\ command = <<>>
    /\ childCode = {}
    /\ logged = <<>>
    /\ ret = None
    /\ stderr = <<>>
    /\ exitCode = {}

\* main calls run, which enters the with block
run_enter ==
    /\ pc = "main"
    /\ tdExists' = TemporaryDirectory_enter.exists
    /\ tree' = TemporaryDirectory_enter.tree
    /\ tdCreated' = TRUE
    /\ pc' = "resolve"
    /\ UNCHANGED <<argv, reply, listing, url, virtualenvpy, started, exc, raised,
                   child, command, childCode, logged, ret, stderr, exitCode>>

\* url = task_get_url('virtualenv')
run_get_url ==
    /\ pc = "resolve"
    /\ \E r \in IndexReplies :
          /\ reply' = r
          /\ url' = task_get_url(Package, r).url
          /\ exc' = task_get_url(Package, r).exc
          /\ raised' = task_get_url(Package, r).exc
          /\ pc' = run_next("resolve", task_get_url(Package, r).exc)
    /\ started' = Append(started, "resolve")
    /\ UNCHANGED <<argv, tdExists, tdCreated, tree, listing, virtualenvpy,
                   child, command, childCode, logged, ret, stderr, exitCode>>

\* task_fetch_virtualenv(td, url)
run_fetch_virtualenv ==
    /\ pc = "fetch"
    /\ \E dl \in Downloads, ex \in Extractions :
          /\ tree' = task_fetch_virtualenv(Td, url, dl, ex).tree
          /\ exc' = task_fetch_virtualenv(Td, url, dl, ex).exc
          /\ raised' = task_fetch_virtualenv(Td, url, dl, ex).exc
          /\ pc' = run_next("fetch", task_fetch_virtualenv(Td, url, dl, ex).exc)
    /\ started' = Append(started, "fetch")
    /\ UNCHANGED <<argv, tdExists, tdCreated, reply, listing, url, virtualenvpy,
                   child, command, childCode, logged, ret, stderr, exitCode>>

\* virtualenvpy = task_find_virtualenvpy(td)
run_find_virtualenvpy ==
    /\ pc = "locate"
    /\ \E matches \in Orderings(GlobSet(Td, tree)) :
          /\ listing' = matches
          /\ virtualenvpy' = task_find_virtualenvpy(tree, matches).path
          /\ exc' = task_find_virtualenvpy(tree, matches).exc
          /\ raised' = task_find_virtualenvpy(tree, matches).exc
          /\ pc' = run_next("locate", task_find_virtualenvpy(tree, matches).exc)
    /\ started' = Append(started, "locate")
    /\ UNCHANGED <<argv, tdExists, tdCreated, tree, reply, url,
                   child, command, childCode, logged, ret, stderr, exitCode>>

\* task_create_venv(python, virtualenvpy, venv_args), up to the launch of
\* the child by subprocess.call
run_create_venv ==
    /\ pc = "invoke"
    /\ started' = Append(started, "invoke")
    /\ LET r == create_venv_args(Python, virtualenvpy, argv) IN
          \/ /\ r.exc # NoExc
             /\ exc' = r.exc
             /\ raised' = r.exc
             /\ pc' = run_next("invoke", r.exc)
             /\ UNCHANGED <<child, command>>
          \/ /\ r.exc = NoExc
             /\ command' = r.args
             /\ child' = "running"
             /\ pc' = call_returns
             /\ UNCHANGED <<exc, raised>>
    /\ UNCHANGED <<argv, tdExists, tdCreated, tree, reply, listing, url,
                   virtualenvpy, childCode, logged, ret, stderr, exitCode>>

\* the child terminates, subprocess.call returns its status and
\* task_create_venv tests it
child_exit ==
    /\ pc = "wait"
    /\ child = "running"
    /\ \E code \in ExitStatuses :
          /\ childCode' = {code}
          /\ exc' = create_venv_result(code)
          /\ raised' = create_venv_result(code)
          /\ pc' = run_next("invoke", create_venv_result(code))
    /\ child' = "exited"
    /\ UNCHANGED <<argv, tdExists, tdCreated, tree, reply, listing, url,
                   virtualenvpy, started, command, logged, ret, stderr, exitCode>>

\* the with block of run is left: TemporaryDirectory.__exit__
run_exit ==
    /\ pc = "exit"
    /\ tdExists' = TemporaryDirectory_exit(exc).exists
    /\ tree' = IF TemporaryDirectory_exit(exc).exists THEN tree ELSE EmptyTree
    /\ exc' = TemporaryDirectory_exit(exc).exc
    /\ pc' = "main_try"
    /\ UNCHANGED <<argv, tdCreated, reply, listing, url, virtualenvpy, started,
                   raised, child, command, childCode, logged, ret, stderr, exitCode>>

\* run returned to main: return None
main_return ==
    /\ pc = "main_try"
    /\ exc = NoExc
    /\ ret' = None
    /\ pc' = "sys_exit"
    /\ UNCHANGED <<argv, tdExists, tdCreated, tree, reply, listing, url,
                   virtualenvpy, started, exc, raised, child, command, childCode,
                   logged, stderr, exitCode>>

\* run raised a BootstrapError: main logs it and returns the message
main_bootstrap_error ==
    /\ pc = "main_try"
    /\ exc.kind = "BootstrapError"
    /\ logged' = main_except(exc).logged
    /\ stderr' = Append(stderr, [src |-> "logging.exception",
                                 text |-> Format(main_except(exc).logged[1],
                                                 main_except(exc).logged[2])])
    /\ ret' = main_except(exc).ret
    /\ pc' = "sys_exit"
    /\ UNCHANGED <<argv, tdExists, tdCreated, tree, reply, listing, url,
                   virtualenvpy, started, exc, raised, child, command, childCode,
                   exitCode>>

\* run raised another exception: main does not catch it, the interpreter
\* prints the traceback and exits with status 1
main_uncaught ==
    /\ pc = "main_try"
    /\ exc.kind \notin {"none", "BootstrapError"}
    /\ stderr' = Append(stderr, [src |-> "traceback", text |-> <<exc.kind>>])
    /\ exitCode' = {1}
    /\ pc' = "exited"
    /\ UNCHANGED <<argv, tdExists, tdCreated, tree, reply, listing, url,
                   virtualenvpy, started, exc, raised, child, command, childCode,
                   logged, ret>>

\* sys.exit(main(sys.argv[1:]))
script_exit ==
    /\ pc = "sys_exit"
    /\ stderr' = stderr \o sys_exit(ret).printed
    /\ exitCode' = {sys_exit(ret).code}
    /\ pc' = "exited"
    /\ UNCHANGED <<argv, tdExists, tdCreated, tree, reply, listing, url,
                   virtualenvpy, started, exc, raised, child, command, childCode,
                   logged, ret>>

Next ==
    \/ run_enter
    \/ run_get_url
    \/ run_fetch_virtualenv
    \/ run_find_virtualenvpy
    \/ run_create_venv
    \/ child_exit
    \/ run_exit
    \/ main_return
    \/ main_bootstrap_error
    \/ main_uncaught
    \/ script_exit

Spec == Init /\ [][Next]_vars

----------------------------------------------------------------------------
(* Properties *)

RunCompleted == pc \in {"main_try", "sys_exit", "exited"}

IsPrefix(s, t) == Len(s) <= Len(t) /\ s = SubSeq(t, 1, Len(s))

Min(S) == CHOOSE m \in S : \A n \in S : m <= n

\* the lines of the error stream that carry the text
Emissions(text) == {i \in 1..Len(stderr) : stderr[i].text = text}

\* C1: once run has completed, with or without a failure in any stage,
\* the scratch directory created at its start no longer exists.
C1_ScratchGoneAfterRun == RunCompleted => tdCreated /\ ~tdExists

C1_Witness ==
    /\ pc = "exited"
    /\ started = <<"resolve", "fetch", "locate">>
    /\ raised = NotFound
    /\ tdCreated
    /\ ~tdExists

\* C2: the stages start in the order resolve, fetch, locate, invoke, each
\* at most once, and once a stage has failed no stage is started.
C2_StagesInOrder ==
    [][IsPrefix(started', StageOrder) /\ (exc # NoExc => started' = started)]_vars

C2_Witness ==
    /\ pc = "exited"
    /\ started = <<"resolve", "fetch">>
    /\ raised.kind = "BootstrapError"

\* C3: every run ends either without a failure, or with a BootstrapError
\* whose rendered message main logged and returned; no failure ends the
\* run any other way.
C3_EveryFailureIsReported ==
    pc = "exited" =>
        \/ /\ raised = NoExc
           /\ ret.none
           /\ exitCode = {0}
        \/ /\ raised.kind = "BootstrapError"
           /\ logged = <<raised.msg, raised.args>>
           /\ ret = Str(Format(raised.msg, raised.args))
           /\ exitCode # {0}

\* C4: a failed run writes the rendered message of its failure exactly
\* once.
C4_MessageSurfacedOnce ==
    (pc = "exited" /\ raised.kind = "BootstrapError") =>
        Cardinality(Emissions(Format(raised.msg, raised.args))) = 1

\* C5: the exception in flight is the one the failing stage raised, and
\* main logs and returns exactly its template and arguments.
C5_ErrorReachesMainUnchanged ==
    /\ exc = raised
    /\ (pc \in {"sys_exit", "exited"} /\ raised.kind = "BootstrapError") =>
          /\ logged = <<raised.msg, raised.args>>
          /\ ret = Str(Format(raised.msg, raised.args))

C5_Witness ==
    /\ pc = "exited"
    /\ raised.kind = "BootstrapError"
    /\ raised.args # <<>>
    /\ ret = Str(Format(raised.msg, raised.args))

\* C6: for an index reply that lists artifacts, the url is that of the
\* first artifact, in listing order, of type sdist; with no such artifact
\* the stage raises 'No URL found' and there is no url.
C6_FirstSdistUrl ==
    reply.kind = "ok" =>
        LET sdists == {i \in 1..Len(reply.urls) : reply.urls[i].packagetype = "sdist"} IN
        IF sdists = {}
        THEN /\ url = NoUrl
             /\ raised = BootstrapError(<<"No URL found for: ", "%s">>, <<"virtualenv">>)
             /\ started = <<"resolve">>
        ELSE url = reply.urls[Min(sdists)].url

C6_Witness ==
    /\ reply.kind = "ok"
    /\ Len(reply.urls) = 2
    /\ reply.urls[1].packagetype = "bdist_wheel"
    /\ reply.urls[2].packagetype = "sdist"
    /\ reply.urls[1].url # reply.urls[2].url
    /\ url = reply.urls[2].url

\* C7: when the child was launched, the process exits with status 0 and
\* no message exactly when the child's exit status is 0; any other
\* status, negative ones too, ends the run with 'Could not create
\* virtualenv.'; and a run exits with status 0 only after such a child.
C7_DoneIffChildStatusZero ==
    /\ (pc = "exited" /\ child = "exited") =>
          /\ (childCode = {0}) <=> (ret.none /\ exitCode = {0} /\ raised = NoExc)
          /\ (childCode # {0}) =>
                /\ raised = BootstrapError(<<"Could not create virtualenv.">>, <<>>)
                /\ ret = Str(<<"Could not create virtualenv.">>)
                /\ exitCode # {0}
    /\ (pc = "exited" /\ exitCode = {0}) => (child = "exited" /\ childCode = {0})

C7_Witness ==
    /\ pc = "exited"
    /\ child = "exited"
    /\ \E code \in childCode : code < 0
    /\ exitCode = {1}
    /\ ret = Str(<<"Could not create virtualenv.">>)

\* C8: for every list of passthrough arguments, the empty one too, once
\* task_create_venv has been entered the child was launched with the
\* interpreter, the entry script and the arguments in their order.
C8_CommandForEveryArgs ==
    Len(started) = 4 =>
        /\ child # "none"
        /\ command = <<Python, virtualenvpy>> \o argv

\* C9: a path returned by the search is <<td, child, virtualenv.py>> for
\* a child whose name starts with 'virtualenv-' and that holds a regular
\* file of that name; when no child is such, the search raises 'Could
\* not find virtualenv.py' and returns no path.
C9_EntryScriptOnlyWhereItIs ==
    (Len(started) >= 3 /\ tdExists) =>
        LET good == {c \in ChildNames :
                        /\ Len(c) >= Len(Prefix)
                        /\ \A i \in 1..Len(Prefix) : c[i] = Prefix[i]
                        /\ tree[c] = "dir_file"} IN
        /\ virtualenvpy # NoPath =>
              \E c \in good : virtualenvpy = <<"td", c, "virtualenv.py">>
        /\ good = {} =>
              /\ virtualenvpy = NoPath
              /\ raised = BootstrapError(<<"Could not find virtualenv.py">>, <<>>)
              /\ started = <<"resolve", "fetch", "locate">>

C9_Witness ==
    /\ Len(started) >= 3
    /\ tdExists
    /\ \E c \in ChildNames : MatchesPattern(c) /\ tree[c] = "dir_dir"
    /\ \E c \in ChildNames : ~MatchesPattern(c) /\ tree[c] = "dir_file"
    /\ virtualenvpy = NoPath
    /\ raised = NotFound

\* C10: the scratch directory is created before the first stage, exists
\* while a stage or the child runs, is removed only once the with block
\* has been left, and is gone before main logs or returns anything.
C10_ScratchLivesThroughStages ==
    /\ pc \in {"resolve", "fetch", "locate", "invoke", "wait"} => tdExists
    /\ child = "running" => tdExists
    /\ started # <<>> => tdCreated
    /\ (tdCreated /\ ~tdExists) => RunCompleted
    /\ (logged # <<>> \/ stderr # <<>> \/ pc \in {"sys_exit", "exited"}) => ~tdExists

C10_Witness ==
    /\ pc = "wait"
    /\ child = "running"
    /\ tdExists
    /\ started = StageOrder

====
